---- MODULE Spec2Model ----
(***************************************************************************)
(* Model of the todo REST service: TodoService (src/src/todo/              *)
(* todo.service.ts) holding an in-memory array and an id counter, and      *)
(* TodoController (todo.controller.ts) mapping HTTP requests onto it.      *)
(*                                                                         *)
(* Encodings.  A JavaScript value that may be absent (undefined, NaN, a    *)
(* property a JSON body does not carry) is a sequence of length 0 or 1:    *)
(* <<>> is "absent", <<v>> is the value v.  A string taken from the URL is *)
(* a sequence of one-character strings.  A Date is the integer clock       *)
(* reading it was built from.  Each Todo object carries `ref`, its object  *)
(* identity (the ordinal of the create call that allocated it); the code   *)
(* never reads or writes it.                                               *)
(***************************************************************************)
EXTENDS Integers, Sequences, FiniteSets

\* Bounds of the model.
MaxCreates == 2
MaxTime == 1
MaxId == 1

VARIABLES
    todos,       \* TodoService.todos: the array of Todo objects
    idCounter,   \* TodoService.idCounter
    now,         \* the latest reading of the system clock (new Date())
    call,        \* the request handled last and its response
    createdIds,  \* history: the ids returned by create, in call order
    removedIds   \* history: the ids for which remove returned true

vars == <<todos, idCounter, now, call, createdIds, removedIds>>

Undefined == <<>>

Some(v) == <<v>>

Times == 0..MaxTime

----------------------------------------------------------------------------
(* Unary plus on the path parameter: `+id` (ECMAScript ToNumber on a       *)
(* string).  Leading and trailing white space is stripped; the empty       *)
(* string converts to 0; a run of decimal digits converts to its value;    *)
(* anything else converts to NaN (absent).  Signs, fractions, exponents    *)
(* and radix prefixes do not occur in Paths.                               *)

Digits == {"0", "1", "2", "3"}

DigitVal(c) == CASE c = "0" -> 0 [] c = "1" -> 1 [] c = "2" -> 2 [] c = "3" -> 3

RECURSIVE TrimStart(_)
TrimStart(s) ==
    IF s # <<>> /\ s[1] = " " THEN TrimStart(Tail(s)) ELSE s

RECURSIVE TrimEnd(_)
TrimEnd(s) ==
    IF s # <<>> /\ s[Len(s)] = " " THEN TrimEnd(SubSeq(s, 1, Len(s) - 1)) ELSE s

Trim(s) == TrimEnd(TrimStart(s))

RECURSIVE DecimalValue(_)
DecimalValue(s) ==
    IF s = <<>> THEN 0
    ELSE 10 * DecimalValue(SubSeq(s, 1, Len(s) - 1)) + DigitVal(s[Len(s)])

IsDigits(s) == s # <<>> /\ \A i \in 1..Len(s) : s[i] \in Digits

ToNumber(s) ==
    LET t == Trim(s) IN
    IF t = <<>> THEN Some(0)
    ELSE IF IsDigits(t) THEN Some(DecimalValue(t))
    ELSE Undefined

\* The path segments the requests are drawn from.
Paths == { <<"1">>, <<"0", "2">>, <<" ">>, <<"a">> }

----------------------------------------------------------------------------
(* Request bodies.  UpdateTodoDto declares title? and isCompleted?, but    *)
(* the class carries no validation and the controller hands the parsed     *)
(* JSON body to the service as it came: any own property of the body       *)
(* reaches Object.assign.  A body is a record of optional properties.      *)

\* the elements of a sequence: of an optional value, none or the value
Range(f) == { f[i] : i \in DOMAIN f }

Optional(S) == {Undefined} \cup { Some(v) : v \in S }

Body(title, isCompleted, id, createdAt, updatedAt) ==
    [ title |-> title, isCompleted |-> isCompleted, id |-> id,
      createdAt |-> createdAt, updatedAt |-> updatedAt ]

NoPatch == Body(Undefined, Undefined, Undefined, Undefined, Undefined)

\* The bodies PUT requests are drawn from: every combination of the declared
\* properties, and bodies carrying one property the DTO does not declare.
Patches ==
    { Body(title, isCompleted, Undefined, Undefined, Undefined) :
        title \in Optional({"b"}), isCompleted \in Optional(BOOLEAN) }
    \cup { Body(Undefined, Undefined, Some(id), Undefined, Undefined) :
             id \in 0..MaxId }
    \cup { Body(Undefined, Undefined, Undefined, Some(MaxTime), Undefined),
           Body(Undefined, Undefined, Undefined, Undefined, Some(0)) }

CreateTodoDtos == [ title : {"a"} ]

Has(patch, k) == patch[k] # Undefined

----------------------------------------------------------------------------
(* TodoService                                                            *)

\* todo.id === id, with id possibly NaN (NaN === x is false for every x)
StrictEquals(todoId, id) == id = Some(todoId)

\* Array.prototype.find: the index of the first match, 0 when none
FindIndex(ts, id) ==
    IF \E i \in 1..Len(ts) : StrictEquals(ts[i].id, id)
    THEN CHOOSE i \in 1..Len(ts) :
            /\ StrictEquals(ts[i].id, id)
            /\ \A j \in 1..(i - 1) : ~StrictEquals(ts[j].id, id)
    ELSE 0

TodoService_findAll(ts) == ts

TodoService_findOne(ts, id) ==
    IF FindIndex(ts, id) = 0 THEN Undefined ELSE Some(ts[FindIndex(ts, id)])

\* variant of create taking the id from the array length instead of the counter
TodoService_create_lengthId(ts, ctr, dto, t1, t2, ref) ==
    LET todo == [ ref |-> ref, id |-> Len(ts) + 1, title |-> dto.title,
                  isCompleted |-> FALSE, createdAt |-> t1, updatedAt |-> t2 ]
    IN [ todos |-> Append(ts, todo), idCounter |-> ctr + 1, ret |-> todo ]

\* create: t1 and t2 are the two readings of the clock, ref the new object
TodoService_create(ts, ctr, dto, t1, t2, ref) ==
    LET todo == [ ref |-> ref, id |-> ctr, title |-> dto.title,
                  isCompleted |-> FALSE, createdAt |-> t1, updatedAt |-> t2 ]
    IN [ todos |-> Append(ts, todo), idCounter |-> ctr + 1, ret |-> todo ]

\* variant with the sources swapped: Object.assign(todo, { updatedAt }, dto)
ObjectAssign_bodyLast(todo, patch, t) ==
    [ ref |-> todo.ref,
      id |-> IF Has(patch, "id") THEN patch.id[1] ELSE todo.id,
      title |-> IF Has(patch, "title") THEN patch.title[1] ELSE todo.title,
      isCompleted |-> IF Has(patch, "isCompleted") THEN patch.isCompleted[1]
                      ELSE todo.isCompleted,
      createdAt |-> IF Has(patch, "createdAt") THEN patch.createdAt[1]
                    ELSE todo.createdAt,
      updatedAt |-> IF Has(patch, "updatedAt") THEN patch.updatedAt[1] ELSE t ]

\* Object.assign(todo, updateTodoDto, { updatedAt: new Date() })
ObjectAssign(todo, patch, t) ==
    [ ref |-> todo.ref,
      id |-> IF Has(patch, "id") THEN patch.id[1] ELSE todo.id,
      title |-> IF Has(patch, "title") THEN patch.title[1] ELSE todo.title,
      isCompleted |-> IF Has(patch, "isCompleted") THEN patch.isCompleted[1]
                      ELSE todo.isCompleted,
      createdAt |-> IF Has(patch, "createdAt") THEN patch.createdAt[1]
                    ELSE todo.createdAt,
      updatedAt |-> t ]

\* variant of update that takes the record out and pushes the new one
TodoService_update_reinsert(ts, id, patch, t) ==
    LET i == FindIndex(ts, id) IN
    IF i = 0 THEN [ todos |-> ts, ret |-> Undefined ]
    ELSE [ todos |-> Append(SubSeq(ts, 1, i - 1) \o SubSeq(ts, i + 1, Len(ts)),
                            ObjectAssign(ts[i], patch, t)),
           ret |-> Some(ObjectAssign(ts[i], patch, t)) ]

TodoService_update(ts, id, patch, t) ==
    LET i == FindIndex(ts, id) IN
    IF i = 0 THEN [ todos |-> ts, ret |-> Undefined ]
    ELSE [ todos |-> [ ts EXCEPT ![i] = ObjectAssign(ts[i], patch, t) ],
           ret |-> Some(ObjectAssign(ts[i], patch, t)) ]

KeepIfNot(ts, id) ==
    LET keep(todo) == ~StrictEquals(todo.id, id) IN SelectSeq(ts, keep)

\* variant of remove with the comparison of the lengths inverted
TodoService_remove_inverted(ts, id) ==
    [ todos |-> KeepIfNot(ts, id),
      ret |-> Len(KeepIfNot(ts, id)) = Len(ts) ]

\* variant of remove by splice(findIndex(...), 1): index -1 drops the last
TodoService_remove_splice(ts, id) ==
    LET i == IF FindIndex(ts, id) = 0 THEN Len(ts) ELSE FindIndex(ts, id)
        rest == SubSeq(ts, 1, i - 1) \o SubSeq(ts, i + 1, Len(ts))
    IN [ todos |-> rest, ret |-> Len(rest) # Len(ts) ]

TodoService_remove(ts, id) ==
    [ todos |-> KeepIfNot(ts, id),
      ret |-> Len(KeepIfNot(ts, id)) # Len(ts) ]

----------------------------------------------------------------------------
(* TodoController                                                         *)

NotFoundMessage(id) == <<"Todo with ID ">> \o id \o <<" not found">>

DeletedMessage == <<"Todo deleted successfully">>

Response(op, path, patch, outcome, body, message) ==
    [ op |-> op, path |-> path, patch |-> patch, outcome |-> outcome,
      body |-> body, message |-> message ]

Init ==
    /\ todos = <<>>
    /\ idCounter = 1
    /\ now = 0
    /\ call = Response("none", <<>>, NoPatch, "ok", <<>>, <<>>)
    /\ createdIds = <<>>
    /\ removedIds = {}

\* POST /todos
TodoController_create(dto, t1, t2) ==
    /\ idCounter <= MaxCreates
    /\ now <= t1 /\ t1 <= t2
    /\ LET r == TodoService_create(todos, idCounter, dto, t1, t2,
                                   Len(createdIds) + 1)
       IN /\ todos' = r.todos
          /\ idCounter' = r.idCounter
          /\ call' = Response("POST", <<>>, NoPatch, "ok", <<r.ret>>, <<>>)
          /\ createdIds' = Append(createdIds, r.ret.id)
    /\ now' = t2
    /\ UNCHANGED removedIds

\* GET /todos
TodoController_findAll ==
    /\ call' = Response("GET_ALL", <<>>, NoPatch, "ok",
                        TodoService_findAll(todos), <<>>)
    /\ UNCHANGED <<todos, idCounter, now, createdIds, removedIds>>

\* GET /todos/:id
TodoController_findOne(id) ==
    /\ LET todo == TodoService_findOne(todos, ToNumber(id)) IN
       call' = IF todo = Undefined
               THEN Response("GET", id, NoPatch, "NotFoundException", <<>>,
                             NotFoundMessage(id))
               ELSE Response("GET", id, NoPatch, "ok", todo, <<>>)
    /\ UNCHANGED <<todos, idCounter, now, createdIds, removedIds>>

\* PUT /todos/:id
TodoController_update(id, updateTodoDto, t) ==
    /\ now <= t
    /\ LET r == TodoService_update(todos, ToNumber(id), updateTodoDto, t) IN
       /\ todos' = r.todos
       /\ call' = IF r.ret = Undefined
                  THEN Response("PUT", id, updateTodoDto, "NotFoundException",
                                <<>>, NotFoundMessage(id))
                  ELSE Response("PUT", id, updateTodoDto, "ok", r.ret, <<>>)
       /\ now' = IF r.ret = Undefined THEN now ELSE t
    /\ UNCHANGED <<idCounter, createdIds, removedIds>>

\* DELETE /todos/:id
TodoController_remove(id) ==
    /\ LET r == TodoService_remove(todos, ToNumber(id)) IN
       /\ todos' = r.todos
       /\ call' = IF ~r.ret
                  THEN Response("DELETE", id, NoPatch, "NotFoundException",
                                <<>>, NotFoundMessage(id))
                  ELSE Response("DELETE", id, NoPatch, "ok", <<>>,
                                DeletedMessage)
       /\ removedIds' = IF r.ret THEN removedIds \cup Range(ToNumber(id))
                        ELSE removedIds
    /\ UNCHANGED <<idCounter, now, createdIds>>

Next ==
    \/ \E dto \in CreateTodoDtos, t1 \in Times, t2 \in Times :
          TodoController_create(dto, t1, t2)
    \/ TodoController_findAll
    \/ \E id \in Paths : TodoController_findOne(id)
    \/ \E id \in Paths, dto \in Patches, t \in Times :
          TodoController_update(id, dto, t)
    \/ \E id \in Paths : TodoController_remove(id)

Spec == Init /\ [][Next]_vars

----------------------------------------------------------------------------
(* Properties                                                              *)

IdRequests == {"GET", "PUT", "DELETE"}

\* some record of the array ts has the id the path segment converts to
Matches(ts, path) ==
    \E i \in 1..Len(ts) : StrictEquals(ts[i].id, ToNumber(path))

\* C1: the ids returned by successive create calls are strictly increasing
\* (hence never repeat), whatever updates and removes come in between.
C1_CreateIdsIncrease ==
    \A i, j \in 1..Len(createdIds) : i < j => createdIds[i] < createdIds[j]

\* a create that followed a successful remove and another create
C1_Witness ==
    /\ call.op = "POST"
    /\ Len(createdIds) = 2
    /\ removedIds # {}

\* C2: once remove(id) has succeeded, findOne(id) is undefined in every later
\* state and no create returns that id.
C2_RemovedStaysGone ==
    /\ \A id \in removedIds : TodoService_findOne(todos, Some(id)) = Undefined
    /\ \A id \in removedIds : call.op = "POST" => call.body[1].id # id

\* C3: every record keeps the id create assigned to it, and no two records
\* of the collection share an id.
C3_IdImmutableUnique ==
    /\ \A i \in 1..Len(todos) : todos[i].id = createdIds[todos[i].ref]
    /\ \A i, j \in 1..Len(todos) : i # j => todos[i].id # todos[j].id

\* C4: a successful update sets title (isCompleted) to the patch's value when
\* the patch carries it and leaves it as it was otherwise, sets updatedAt to
\* the current time, and returns the record so updated.
C4_UpdateAppliesPatch ==
    [][ (call'.op = "PUT" /\ call'.outcome = "ok") =>
          LET i == FindIndex(todos, ToNumber(call'.path))
              patch == call'.patch
          IN /\ i # 0
             /\ Len(todos') = Len(todos)
             /\ todos'[i].title =
                  IF patch.title # <<>> THEN patch.title[1] ELSE todos[i].title
             /\ todos'[i].isCompleted =
                  IF patch.isCompleted # <<>> THEN patch.isCompleted[1]
                  ELSE todos[i].isCompleted
             /\ todos'[i].updatedAt = now'
             /\ call'.body = <<todos'[i]>> ]_vars

\* an update with the empty patch that moved updatedAt and nothing else
C4_Witness ==
    /\ call.op = "PUT"
    /\ call.outcome = "ok"
    /\ call.patch = NoPatch
    /\ call.body[1].title = "a"
    /\ call.body[1].isCompleted = FALSE
    /\ call.body[1].createdAt < call.body[1].updatedAt

C6_FindOneReturnsLatest ==
    [][ \A id \in Range(createdIds') \ removedIds' :
          IF call'.op = "POST" /\ call'.body[1].id = id
             THEN TodoService_findOne(todos', Some(id)) = call'.body
          ELSE IF /\ call'.op = "PUT" /\ call'.outcome = "ok"
                  /\ ToNumber(call'.path) = Some(id)
             THEN TodoService_findOne(todos', Some(id)) = call'.body
          ELSE TodoService_findOne(todos', Some(id)) =
                  TodoService_findOne(todos, Some(id)) ]_vars

\* C7: every record of the collection has createdAt <= updatedAt.
C7_CreatedBeforeUpdated ==
    \A i \in 1..Len(todos) : todos[i].createdAt <= todos[i].updatedAt

NonNumeric(path) == ~IsDigits(Trim(path))

\* C9: a non-numeric path segment on GET, PUT or DELETE ends in the not-found
\* outcome and leaves the collection and the id counter unchanged.
C9_NonNumericNotFound ==
    [][ (call'.op \in IdRequests /\ NonNumeric(call'.path)) =>
          /\ call'.outcome = "NotFoundException"
          /\ call'.message =
                <<"Todo with ID ">> \o call'.path \o <<" not found">>
          /\ todos' = todos
          /\ idCounter' = idCounter ]_vars

\* C10: update and remove for an id matching no record give the not-found
\* signal and leave records, order and id counter as they were; findAll and
\* findOne leave them as they were in every case.
C10_NotFoundFrame ==
    [][ /\ (call'.op \in {"PUT", "DELETE"} /\ ~Matches(todos, call'.path)) =>
             /\ call'.outcome = "NotFoundException"
             /\ todos' = todos
             /\ idCounter' = idCounter
        /\ (call'.op \in {"PUT", "DELETE"}
              /\ call'.outcome = "NotFoundException") =>
             /\ todos' = todos
             /\ idCounter' = idCounter
        /\ call'.op \in {"GET", "GET_ALL"} =>
             /\ todos' = todos
             /\ idCounter' = idCounter ]_vars

\* an update for an unknown id was refused while the store held two records
C10_Witness ==
    /\ call.op = "PUT"
    /\ call.outcome = "NotFoundException"
    /\ call.patch.title = <<"b">>
    /\ Len(todos) = 2
    /\ \A i \in 1..Len(todos) : todos[i].title = "a"

\* C11: a successful update or remove touches only the record with that id:
\* update leaves every other record as it was, remove deletes exactly one
\* record and leaves every other record present and as it was, and neither
\* changes the id counter.
C11_OnlyAddressedRecord ==
    [][ /\ (call'.op = "PUT" /\ call'.outcome = "ok") =>
             LET i == FindIndex(todos, ToNumber(call'.path)) IN
             /\ Len(todos') = Len(todos)
             /\ \A j \in 1..Len(todos) : j # i => todos'[j] = todos[j]
             /\ idCounter' = idCounter
        /\ (call'.op = "DELETE" /\ call'.outcome = "ok") =>
             /\ Len(todos') = Len(todos) - 1
             /\ \A j \in 1..Len(todos) :
                   ~StrictEquals(todos[j].id, ToNumber(call'.path)) =>
                      \E k \in 1..Len(todos') : todos'[k] = todos[j]
             /\ idCounter' = idCounter ]_vars

====
